---- MODULE Spec2Model ----
(***************************************************************************)
(* Model of dscheck.py (building-a-python-cli-to-check-directory-          *)
(* structures): the recursive validation of a directory tree against a     *)
(* DirStructure schema.                                                    *)
(*                                                                         *)
(* A name or a pattern is a sequence of one-character strings; a path is   *)
(* a sequence of names; the file system is a finite tree of directories    *)
(* and files.  One run of validate_dir_structure is a call stack: `calls`  *)
(* holds one record per invocation, `stack` the invocations still active,  *)
(* `log` the logging.error records in emission order.                      *)
(***************************************************************************)
EXTENDS Naturals, Sequences, FiniteSets

(* ------------------------------ bounds --------------------------------- *)

\* largest number of pattern entries (FileStructure + nested DirStructure)
\* below the root DirStructure
MaxSchemaNodes == 2

\* largest number of entries (files and directories) of the file system
MaxEntries == 3

\* entry names that can occur in the file system
Names == { <<"a">>, <<"b">> }

\* patterns that can occur in a schema: a literal and a wildcard
Patterns == { <<"a">>, <<"*">> }

(* --------------------------- data model -------------------------------- *)

\* class FileStructure: pattern, is_optional
FileStructure == [pattern : Patterns, is_optional : BOOLEAN]

\* class DirStructure: pattern, is_optional, sub_dirs, files
DirStructure(pattern, is_optional, sub_dirs, files) ==
    [pattern |-> pattern, is_optional |-> is_optional,
     sub_dirs |-> sub_dirs, files |-> files]

RECURSIVE SchemaSize(_)
\* number of pattern entries below a DirStructure
SchemaSize(ds) ==
    LET RECURSIVE Sum(_)
        Sum(s) == IF s = <<>> THEN 0
                  ELSE 1 + SchemaSize(Head(s)) + Sum(Tail(s))
    IN  Len(ds.files) + Sum(ds.sub_dirs)

RECURSIVE SchemaBodies(_)
\* every (sub_dirs, files) pair with at most n pattern entries
SchemaBodies(n) ==
    IF n = 0 THEN { [sub_dirs |-> <<>>, files |-> <<>>] }
    ELSE LET prev == SchemaBodies(n - 1)
         IN  prev
             \cup { [b EXCEPT !.files = Append(@, f)] :
                        b \in prev, f \in FileStructure }
             \cup UNION { UNION { { [b EXCEPT !.sub_dirs =
                                       Append(@, DirStructure(p, o, c.sub_dirs, c.files))] :
                                    p \in Patterns, o \in BOOLEAN } :
                                  c \in { x \in prev :
                                            SchemaSize(b) + SchemaSize(x) + 1 <= n } } :
                          b \in prev }

\* the root DirStructure of a run: its own pattern is never matched
RootStructures ==
    { DirStructure(<<"r">>, FALSE, b.sub_dirs, b.files) :
        b \in SchemaBodies(MaxSchemaNodes) }

RECURSIVE FileSystems(_)
\* every tree of directories and files with at most n entries below the top
FileSystems(n) ==
    IF n = 0 THEN { [dirs |-> { <<>> }, files |-> {}] }
    ELSE LET prev == FileSystems(n - 1)
             Free(f) == { Append(p, nm) : p \in f.dirs, nm \in Names }
                            \ (f.dirs \cup f.files)
         IN  prev
             \cup UNION { { [f EXCEPT !.dirs = @ \cup {q}] : q \in Free(f) } :
                          f \in prev }
             \cup UNION { { [f EXCEPT !.files = @ \cup {q}] : q \in Free(f) } :
                          f \in prev }

(* ---------------------------- fnmatch ---------------------------------- *)

RECURSIVE fnmatch(_, _)
\* fnmatch.fnmatch(name, pat) on a POSIX system (normcase is the identity):
\* '*' matches any run of characters, '?' one character, anything else
\* itself.  Patterns holds no '[', so character classes do not arise.
fnmatch(name, pat) ==
    IF pat = <<>> THEN name = <<>>
    ELSE IF Head(pat) = "*"
         THEN fnmatch(name, Tail(pat))
              \/ (name # <<>> /\ fnmatch(Tail(name), pat))
         ELSE /\ name # <<>>
              /\ (Head(pat) = "?" \/ Head(pat) = Head(name))
              /\ fnmatch(Tail(name), Tail(pat))

(* ------------------------- paths and listing --------------------------- *)

VARIABLES
    schema,    \* the root DirStructure handed to validate_dir_structure
    fs,        \* the file system: [dirs, files], two sets of absolute paths
    cwd,       \* the process's working directory, an absolute path
    calls,     \* one record per invocation of validate_dir_structure
    stack,     \* indices in calls of the invocations still active, innermost last
    log,       \* the logging.error records emitted so far, in order
    outcome    \* how the outermost call ended: running, returned, raised

vars == <<schema, fs, cwd, calls, stack, log, outcome>>

\* a `dir` argument: absolute or relative, and its components
Path(abs, comps) == [abs |-> abs, comps |-> comps]

\* the directory a `dir` argument denotes: the operating system resolves a
\* relative path against the working directory (os.listdir(dir))
Resolve(dir) == IF dir.abs THEN dir.comps ELSE cwd \o dir.comps

\* os.path.join(dir, name)
JoinPath(dir, name) == Path(dir.abs, Append(dir.comps, name))

\* os.listdir that never raises: a path that is no directory lists as empty
ListingErrorLenient(node) == "none"

\* os.listdir(dir) raises: FileNotFoundError, NotADirectoryError
ListingError(node) ==
    IF node \in fs.dirs THEN "none"
    ELSE IF node \in fs.files THEN "NotADirectoryError"
    ELSE "FileNotFoundError"

\* the sequences that enumerate a finite set without repetition
Orderings(S) ==
    { s \in [1..Cardinality(S) -> S] :
        \A i, j \in 1..Cardinality(S) : s[i] = s[j] => i = j }

\* get_files_and_dirs: the names under node that are files, and those that
\* are directories; os.listdir fixes no order, so every order can occur
FilesOf(node) == { nm \in Names : Append(node, nm) \in fs.files }
DirsOf(node)  == { nm \in Names : Append(node, nm) \in fs.dirs }

(* --------------------------- the four checks --------------------------- *)

Indices(n) == [k \in 1..n |-> k]

\* one logging.error record; call and idx tell which invocation emitted it
\* and for which list position (of the patterns or of the entries)
Diag(kind, text, call, idx) ==
    [kind |-> kind, text |-> text, call |-> call, idx |-> idx]

\* the inner search loop of each check: some name matches the pattern
Found(names, pattern) ==
    \E j \in 1..Len(names) : fnmatch(names[j], pattern)

\* the search loop taking the first listed name instead of the matching one
FirstMatchFirstListed(names, pattern) ==
    IF Found(names, pattern) THEN 1 ELSE 0

\* the first name in listing order that matches the pattern, 0 if none
FirstMatch(names, pattern) ==
    IF Found(names, pattern)
    THEN CHOOSE j \in 1..Len(names) :
            /\ fnmatch(names[j], pattern)
            /\ \A k \in 1..(j - 1) : ~fnmatch(names[k], pattern)
    ELSE 0

\* the loops without their "if ... is_optional: continue"
SkippedNever(structure) == FALSE

\* "Skip optional files" / "Skip optional directories"
Skipped(structure) == structure.is_optional

\* validate_required_file_structures: the records it logs, in order; it
\* returns True iff it logs none
validate_required_file_structures(call, files, file_structures) ==
    LET missing == SelectSeq(Indices(Len(file_structures)),
                     LAMBDA k : /\ ~Skipped(file_structures[k])
                                /\ ~Found(files, file_structures[k].pattern))
    IN  [k \in 1..Len(missing) |->
            Diag("missing file", file_structures[missing[k]].pattern,
                 call, missing[k])]

\* the "match" checks searching the required patterns only
SearchedInRequired(structures) ==
    { k \in 1..Len(structures) : ~structures[k].is_optional }

\* the patterns an entry is searched in by the two "match" checks
SearchedIn(structures) == { k \in 1..Len(structures) : TRUE }

\* validate_files_match_file_structures: the records it logs, in order
validate_files_match_file_structures(call, files, file_structures) ==
    LET unknown == SelectSeq(Indices(Len(files)),
                     LAMBDA k : ~\E j \in SearchedIn(file_structures) :
                                   fnmatch(files[k], file_structures[j].pattern))
    IN  [k \in 1..Len(unknown) |->
            Diag("unexpected file", files[unknown[k]], call, unknown[k])]

\* validate_dirs_match_dir_structures: the records it logs, in order
validate_dirs_match_dir_structures(call, dirs, dir_structures) ==
    LET unknown == SelectSeq(Indices(Len(dirs)),
                     LAMBDA k : ~\E j \in SearchedIn(dir_structures) :
                                   fnmatch(dirs[k], dir_structures[j].pattern))
    IN  [k \in 1..Len(unknown) |->
            Diag("unexpected directory", dirs[unknown[k]], call, unknown[k])]

\* validate_required_dir_structures, from list position lo: the position of
\* the next pattern whose search loop reaches the recursive call, or one past
\* the end of the list when the loop ends without another call
NextRecursion(dirs, dir_structures, lo) ==
    LET hits == { k \in lo..Len(dir_structures) :
                    /\ ~Skipped(dir_structures[k])
                    /\ Found(dirs, dir_structures[k].pattern) }
    IN  IF hits = {} THEN Len(dir_structures) + 1
        ELSE CHOOSE k \in hits : \A m \in hits : k <= m

\* the loop walking dir_structures backwards: the records in reverse order
MissingDirsReversed(call, dirs, dir_structures, lo, hi) ==
    LET missing == SelectSeq(Indices(Len(dir_structures)),
                     LAMBDA k : /\ lo <= k /\ k <= hi
                                /\ ~dir_structures[k].is_optional
                                /\ ~Found(dirs, dir_structures[k].pattern))
    IN  [k \in 1..Len(missing) |->
            Diag("missing directory",
                 dir_structures[missing[Len(missing) + 1 - k]].pattern,
                 call, missing[Len(missing) + 1 - k])]

\* validate_required_dir_structures: the records it logs for the list
\* positions lo..hi, in order
MissingDirs(call, dirs, dir_structures, lo, hi) ==
    LET missing == SelectSeq(Indices(Len(dir_structures)),
                     LAMBDA k : /\ lo <= k /\ k <= hi
                                /\ ~Skipped(dir_structures[k])
                                /\ ~Found(dirs, dir_structures[k].pattern))
    IN  [k \in 1..Len(missing) |->
            Diag("missing directory", dir_structures[missing[k]].pattern,
                 call, missing[k])]

\* the `dir` argument of the recursive call:
\* validate_dir_structure(dir_structure, dir) passes the bare entry name
RecursionPath(parent_dir, name) == Path(FALSE, <<name>>)

\* what the caller does with the value of the recursive call: the call is a
\* bare expression statement, its value is dropped
AfterChild(parent_result, child_result) == parent_result

(* ------------------------------ the run -------------------------------- *)

\* one invocation of validate_dir_structure(dir_structure, dir)
Call(parent, pidx, name, ds, dir) ==
    [parent |-> parent,   \* the calling invocation, 0 for the outermost
     pidx   |-> pidx,     \* position in the caller's sub_dirs of ds
     name   |-> name,     \* the entry name that matched
     ds     |-> ds,
     dir    |-> dir,
     files  |-> <<>>,
     dirs   |-> <<>>,
     i      |-> 1,        \* position of validate_required_dir_structures' loop
     result |-> TRUE,
     pc     |-> "enter"]  \* enter, req_dirs, returned; raised, unwound

Top == calls[stack[Len(stack)]]
TopId == stack[Len(stack)]

\* the `dir` argument of the outermost call: the absolute path of the top
\* directory of the tree
RootDir == Path(TRUE, <<>>)

\* the working directories a run is started in: the top directory or one
\* of its immediate subdirectories
WorkingDirs(f) == { d \in f.dirs : d = <<>> \/ Tail(d) = <<>> }

Init ==
    /\ schema \in RootStructures
    /\ fs \in FileSystems(MaxEntries)
    /\ cwd \in WorkingDirs(fs)
    /\ calls = << Call(0, 0, <<>>, schema, RootDir) >>
    /\ stack = <<1>>
    /\ log = <<>>
    /\ outcome = [status |-> "running", value |-> FALSE, error |-> "none"]

\* get_files_and_dirs raises inside the innermost call: no frame catches it,
\* the whole run ends with the exception
ListDirRaises ==
    /\ stack # <<>>
    /\ Top.pc = "enter"
    /\ ListingError(Resolve(Top.dir)) # "none"
    /\ calls' = [c \in 1..Len(calls) |->
                    IF \E k \in 1..Len(stack) : stack[k] = c
                    THEN [calls[c] EXCEPT !.pc = IF c = TopId THEN "raised"
                                                 ELSE "unwound"]
                    ELSE calls[c]]
    /\ stack' = <<>>
    /\ outcome' = [status |-> "raised", value |-> FALSE,
                   error |-> ListingError(Resolve(Top.dir))]
    /\ UNCHANGED <<schema, fs, cwd, log>>

\* validate_dir_structure up to the call of validate_required_dir_structures:
\* the listing and the two file checks
EnterLevel ==
    /\ stack # <<>>
    /\ Top.pc = "enter"
    /\ ListingError(Resolve(Top.dir)) = "none"
    /\ \E files \in Orderings(FilesOf(Resolve(Top.dir))),
          dirs \in Orderings(DirsOf(Resolve(Top.dir))) :
          LET d1 == validate_required_file_structures(TopId, files, Top.ds.files)
              d2 == validate_files_match_file_structures(TopId, files, Top.ds.files)
          IN  /\ log' = log \o d1 \o d2
              /\ calls' = [calls EXCEPT ![TopId] =
                    [@ EXCEPT !.files = files, !.dirs = dirs,
                              !.result = (d1 = <<>>) /\ (d2 = <<>>),
                              !.pc = "req_dirs"]]
    /\ UNCHANGED <<schema, fs, cwd, stack, outcome>>

\* validate_required_dir_structures runs on to its next recursive call
RecurseIntoDir ==
    /\ stack # <<>>
    /\ Top.pc = "req_dirs"
    /\ LET sds == Top.ds.sub_dirs
           j   == NextRecursion(Top.dirs, sds, Top.i)
           d   == MissingDirs(TopId, Top.dirs, sds, Top.i, j - 1)
           nm  == Top.dirs[FirstMatch(Top.dirs, sds[j].pattern)]
       IN  /\ j <= Len(sds)
           /\ log' = log \o d
           /\ calls' = Append(
                 [calls EXCEPT ![TopId] =
                    [@ EXCEPT !.i = j, !.result = @ /\ (d = <<>>)]],
                 Call(TopId, j, nm, sds[j], RecursionPath(Top.dir, nm)))
           /\ stack' = Append(stack, Len(calls) + 1)
    /\ UNCHANGED <<schema, fs, cwd, outcome>>

\* validate_required_dir_structures runs to its end without another call,
\* validate_dirs_match_dir_structures runs, and validate_dir_structure returns
FinishLevel ==
    /\ stack # <<>>
    /\ Top.pc = "req_dirs"
    /\ LET sds == Top.ds.sub_dirs
           d3  == MissingDirs(TopId, Top.dirs, sds, Top.i, Len(sds))
           d4  == validate_dirs_match_dir_structures(TopId, Top.dirs, sds)
           res == Top.result /\ (d3 = <<>>) /\ (d4 = <<>>)
           par == Top.parent
       IN  /\ NextRecursion(Top.dirs, sds, Top.i) > Len(sds)
           /\ log' = log \o d3 \o d4
           /\ calls' = [c \in 1..Len(calls) |->
                 IF c = TopId
                 THEN [calls[c] EXCEPT !.result = res, !.pc = "returned",
                                       !.i = Len(sds) + 1]
                 ELSE IF c = par
                 THEN [calls[c] EXCEPT !.i = @ + 1,
                                       !.result = AfterChild(@, res)]
                 ELSE calls[c]]
           /\ stack' = SubSeq(stack, 1, Len(stack) - 1)
           /\ outcome' = IF par = 0
                         THEN [status |-> "returned", value |-> res,
                               error |-> "none"]
                         ELSE outcome
    /\ UNCHANGED <<schema, fs, cwd>>

Next == ListDirRaises \/ EnterLevel \/ RecurseIntoDir \/ FinishLevel

Spec == Init /\ [][Next]_vars

(* ------------------------- notions of the claims ----------------------- *)

CallIds == 1..Len(calls)
LogIds == 1..Len(log)

\* the directory an invocation works on
NodeOf(c) == Resolve(calls[c].dir)

\* the invocation got its listing (it did not end in os.listdir)
Listed(c) == calls[c].pc \in {"req_dirs", "returned", "unwound"}

\* number of records logged by invocation c of the kind for list position idx
CountAt(c, kind, idx) ==
    Cardinality({ n \in LogIds : /\ log[n].call = c
                                 /\ log[n].kind = kind
                                 /\ log[n].idx = idx })

\* number of records logged by invocation c of the kind with the text
CountText(c, kind, text) ==
    Cardinality({ n \in LogIds : /\ log[n].call = c
                                 /\ log[n].kind = kind
                                 /\ log[n].text = text })

\* a non-optional pattern that no name of the set matches
Unmatched(structure, names) ==
    /\ ~structure.is_optional
    /\ \A nm \in names : ~fnmatch(nm, structure.pattern)

\* a name that no pattern of the list matches
Uncovered(nm, structures) ==
    \A k \in 1..Len(structures) : ~fnmatch(nm, structures[k].pattern)

RECURSIVE ChildToward(_, _)
\* the child of invocation p on the call chain down to c; 0 when c is not
\* called, directly or indirectly, by p
ChildToward(p, c) ==
    IF c = 0 THEN 0
    ELSE IF calls[c].parent = p THEN c
    ELSE ChildToward(p, calls[c].parent)

RECURSIVE Conforms(_, _)
\* the tree under node conforms to the DirStructure at every level
Conforms(ds, node) ==
    /\ \A k \in 1..Len(ds.files) : ~Unmatched(ds.files[k], FilesOf(node))
    /\ \A nm \in FilesOf(node) : ~Uncovered(nm, ds.files)
    /\ \A k \in 1..Len(ds.sub_dirs) : ~Unmatched(ds.sub_dirs[k], DirsOf(node))
    /\ \A nm \in DirsOf(node) : ~Uncovered(nm, ds.sub_dirs)
    /\ \A nm \in DirsOf(node) : \A k \in 1..Len(ds.sub_dirs) :
          fnmatch(nm, ds.sub_dirs[k].pattern)
              => Conforms(ds.sub_dirs[k], Append(node, nm))

(* ------------------------------- claims -------------------------------- *)

\* C1: the value validate_dir_structure returns is true iff no violation
\* was recorded at the root level or at any recursively validated level.
C1_ResultIffNoViolation ==
    outcome.status = "returned" => (outcome.value <=> log = <<>>)

\* C2: at every validated level, every subdirectory whose name matches a
\* declared directory pattern (optional or required, first in the listing
\* or not) is recursively validated against that pattern's nested schema.
C2_EveryMatchValidated ==
    \A c \in CallIds :
        calls[c].pc = "returned" =>
            \A nm \in DirsOf(NodeOf(c)) :
                ~Uncovered(nm, calls[c].ds.sub_dirs) =>
                    \E k \in CallIds :
                        /\ calls[k].parent = c
                        /\ calls[k].name = nm
                        /\ calls[k].ds = calls[c].ds.sub_dirs[calls[k].pidx]
                        /\ fnmatch(nm, calls[k].ds.pattern)

\* C3: at each validated level, for files and for directories separately,
\* every non-optional pattern that matches no entry of its type is logged
\* exactly once as missing, with the pattern as text, and makes the level
\* return false; a non-optional pattern with a match and an optional
\* pattern are never logged as missing.
C3_MissingDiagnostics ==
    \A c \in CallIds :
        LET r == calls[c]
            Expect(s, names) == IF Unmatched(s, names) THEN 1 ELSE 0
        IN  /\ Listed(c) =>
                /\ \A k \in 1..Len(r.ds.files) :
                      CountAt(c, "missing file", k)
                          = Expect(r.ds.files[k], FilesOf(NodeOf(c)))
                /\ \A n \in LogIds :
                      log[n].call = c /\ log[n].kind = "missing file" =>
                          /\ log[n].idx \in 1..Len(r.ds.files)
                          /\ log[n].text = r.ds.files[log[n].idx].pattern
            /\ r.pc = "returned" =>
                /\ \A k \in 1..Len(r.ds.sub_dirs) :
                      CountAt(c, "missing directory", k)
                          = Expect(r.ds.sub_dirs[k], DirsOf(NodeOf(c)))
                /\ \A n \in LogIds :
                      log[n].call = c /\ log[n].kind = "missing directory" =>
                          /\ log[n].idx \in 1..Len(r.ds.sub_dirs)
                          /\ log[n].text = r.ds.sub_dirs[log[n].idx].pattern
                /\ (\/ \E k \in 1..Len(r.ds.files) :
                          Unmatched(r.ds.files[k], FilesOf(NodeOf(c)))
                    \/ \E k \in 1..Len(r.ds.sub_dirs) :
                          Unmatched(r.ds.sub_dirs[k], DirsOf(NodeOf(c))))
                       => ~r.result

\* a level has returned false for a missing required file pattern, logged,
\* beside an optional pattern without a match, not logged
C3_Witness ==
    \E c \in CallIds :
        /\ calls[c].pc = "returned"
        /\ ~calls[c].result
        /\ \E k, m \in 1..Len(calls[c].ds.files) :
              /\ Unmatched(calls[c].ds.files[k], FilesOf(NodeOf(c)))
              /\ CountAt(c, "missing file", k) = 1
              /\ calls[c].ds.files[m].is_optional
              /\ \A nm \in FilesOf(NodeOf(c)) :
                    ~fnmatch(nm, calls[c].ds.files[m].pattern)
              /\ CountAt(c, "missing file", m) = 0

\* C4: at each validated level, for files and for directories separately,
\* every entry that matches no declared pattern of its type is logged
\* exactly once as unexpected, with its name as text, and makes the level
\* return false; an entry matching a pattern of its type is never logged,
\* and only patterns of the entry's own type count.
C4_UnexpectedDiagnostics ==
    \A c \in CallIds :
        LET r == calls[c]
            Expect(nm, structures) == IF Uncovered(nm, structures) THEN 1 ELSE 0
        IN  /\ Listed(c) =>
                /\ \A nm \in FilesOf(NodeOf(c)) :
                      CountText(c, "unexpected file", nm) = Expect(nm, r.ds.files)
                /\ \A n \in LogIds :
                      log[n].call = c /\ log[n].kind = "unexpected file" =>
                          log[n].text \in FilesOf(NodeOf(c))
            /\ r.pc = "returned" =>
                /\ \A nm \in DirsOf(NodeOf(c)) :
                      CountText(c, "unexpected directory", nm)
                          = Expect(nm, r.ds.sub_dirs)
                /\ \A n \in LogIds :
                      log[n].call = c /\ log[n].kind = "unexpected directory" =>
                          log[n].text \in DirsOf(NodeOf(c))
                /\ (\/ \E nm \in FilesOf(NodeOf(c)) : Uncovered(nm, r.ds.files)
                    \/ \E nm \in DirsOf(NodeOf(c)) : Uncovered(nm, r.ds.sub_dirs))
                       => ~r.result

\* a level has returned false for a file that a directory pattern matches
\* and no file pattern does, logged as unexpected, beside a file that an
\* optional file pattern matches, not logged
C4_Witness ==
    \E c \in CallIds :
        /\ calls[c].pc = "returned"
        /\ ~calls[c].result
        /\ \E nm, ok \in FilesOf(NodeOf(c)) :
              /\ Uncovered(nm, calls[c].ds.files)
              /\ ~Uncovered(nm, calls[c].ds.sub_dirs)
              /\ CountText(c, "unexpected file", nm) = 1
              /\ ~Uncovered(ok, calls[c].ds.files)
              /\ \A k \in 1..Len(calls[c].ds.files) :
                    fnmatch(ok, calls[c].ds.files[k].pattern)
                        => calls[c].ds.files[k].is_optional
              /\ CountText(c, "unexpected file", ok) = 0

\* C5: for a tree that conforms to the schema at the root and at every
\* nested level, validate_dir_structure on the root path raises no error,
\* returns true and logs no diagnostic, whatever the working directory.
C5_ConformingTreePasses ==
    Conforms(schema, <<>>) =>
        /\ outcome.status # "raised"
        /\ outcome.status = "returned" => (outcome.value /\ log = <<>>)

\* C6: when listing a directory reached during a run fails, the run ends
\* with that error: the failing invocation gets no listing and logs
\* nothing, every active invocation is unwound, and the run never returns
\* a boolean.
C6_ListingFailureAborts ==
    \A c \in CallIds :
        NodeOf(c) \notin fs.dirs =>
            /\ calls[c].pc \in {"enter", "raised"}
            /\ calls[c].files = <<>> /\ calls[c].dirs = <<>>
            /\ \A n \in LogIds : log[n].call # c
            /\ outcome.status # "returned"
            /\ calls[c].pc = "raised" =>
                /\ outcome.status = "raised"
                /\ outcome.error =
                      (IF NodeOf(c) \in fs.files THEN "NotADirectoryError"
                       ELSE "FileNotFoundError")
                /\ stack = <<>>
                /\ \A k \in CallIds :
                      k # c => calls[k].pc \in {"returned", "unwound"}

\* a run has ended in the listing error of a recursive call after it had
\* logged diagnostics
C6_Witness ==
    /\ outcome.status = "raised"
    /\ log # <<>>
    /\ \E c \in CallIds :
          /\ calls[c].pc = "raised"
          /\ calls[c].parent # 0
          /\ NodeOf(c) \notin fs.dirs

\* C7: a subdirectory whose name matches no declared directory pattern at
\* its level is never listed or validated by the run.
C7_UnmatchedNeverListed ==
    \A p \in CallIds :
        Listed(p) =>
            \A nm \in DirsOf(NodeOf(p)) :
                Uncovered(nm, calls[p].ds.sub_dirs) =>
                    \A c \in CallIds :
                        Listed(c) => NodeOf(c) # Append(NodeOf(p), nm)

\* C8: every recursive call works on the directory that is the matched
\* entry of the directory its caller works on (the caller's path joined
\* with the entry name).
C8_RecursionOnJoinedPath ==
    \A c \in CallIds :
        calls[c].parent # 0 =>
            NodeOf(c) = Resolve(JoinPath(calls[calls[c].parent].dir,
                                         calls[c].name))

Rank(kind) ==
    CASE kind = "missing file" -> 1
      [] kind = "unexpected file" -> 2
      [] kind = "missing directory" -> 3
      [] kind = "unexpected directory" -> 4

====
